---- MODULE Spec2Model ----
(***************************************************************************)
(* Model of sampler/rate_limiter.py: class RateLimiter, a sliding-window   *)
(* limiter on requests (RPM) and tokens (TPM), shared by several threads   *)
(* behind one threading.Lock.                                              *)
(*                                                                         *)
(* Time is counted in ticks of 0.1 s, the size of the safety buffer the    *)
(* code adds to its waits, so time.time() is the integer `now`.  The clock *)
(* is non-decreasing and may advance between any two steps of a thread.    *)
(* time.sleep(d) returns at some instant >= (start of the sleep) + d.      *)
(***************************************************************************)
EXTENDS Integers, Sequences, FiniteSets, TLC

(* ---------------------------- bounds ----------------------------------- *)
MaxTime == 4
MaxLog == 2
MaxTokens == 2

(* ------------------------ encodings, constants ------------------------- *)
\* None for an Optional[int] limit; `if self.rpm_limit` is false for None and 0 alike
None == 0
\* "no value" for a local float (current_time) that is not set
NoTime == -1
\* the 0.1 s of lines 101, 122 and 159, one tick
Buffer == 1

Threads == {"t1", "t2"}
RpmLimits == {None, 1, 2}
TpmLimits == {None, 1}
Windows == {2}
Tokens == 0..MaxTokens

VARIABLES
  now,             \* time.time()
  rpm_limit,       \* self.rpm_limit
  tpm_limit,       \* self.tpm_limit
  window_seconds,  \* self.window_seconds
  request_times,   \* self.request_times: deque of timestamps
  token_usage,     \* self.token_usage: deque of <<timestamp, token_count>>
  locked,          \* self.lock is held
  pc,              \* per thread: where it is in its call
  current_time,    \* per thread: local current_time
  wait_time,       \* per thread: local wait_time
  stats,           \* per thread: value get_current_stats is returning
  estimated_tokens,\* per thread: argument of _calculate_wait_time
  recorded         \* timestamp recorded by the acquire() that returned last

vars == <<now, rpm_limit, tpm_limit, window_seconds, request_times, token_usage,
          locked, pc, current_time, wait_time, stats, estimated_tokens, recorded>>

config == <<rpm_limit, tpm_limit, window_seconds>>
locals == <<current_time, wait_time, stats, estimated_tokens>>

(* ------------------------------ helpers -------------------------------- *)
NoStats == [current_rpm |-> 0, current_tpm |-> 0, rpm_utilization |-> 0, tpm_utilization |-> 0]

Max(a, b) == IF a >= b THEN a ELSE b

\* fault: an entry exactly at the cutoff is dropped too (<= for <)
RECURSIVE CleanRequestsEager(_, _)
CleanRequestsEager(q, cutoff_time) ==
  IF q # <<>> /\ Head(q) <= cutoff_time
  THEN CleanRequestsEager(Tail(q), cutoff_time)
  ELSE q

\* fault: at most one entry is dropped (if for while)
CleanRequestsOnce(q, cutoff_time) ==
  IF q # <<>> /\ Head(q) < cutoff_time THEN Tail(q) ELSE q

\* while self.request_times and self.request_times[0] < cutoff_time: popleft()
RECURSIVE CleanRequests(_, _)
CleanRequests(q, cutoff_time) ==
  IF q # <<>> /\ Head(q) < cutoff_time
  THEN CleanRequests(Tail(q), cutoff_time)
  ELSE q

\* fault: an entry exactly at the cutoff is dropped too (<= for <)
RECURSIVE CleanTokensEager(_, _)
CleanTokensEager(q, cutoff_time) ==
  IF q # <<>> /\ Head(q)[1] <= cutoff_time
  THEN CleanTokensEager(Tail(q), cutoff_time)
  ELSE q

\* fault: the token log is not trimmed
CleanTokensNone(q, cutoff_time) == q

\* while self.token_usage and self.token_usage[0][0] < cutoff_time: popleft()
RECURSIVE CleanTokens(_, _)
CleanTokens(q, cutoff_time) ==
  IF q # <<>> /\ Head(q)[1] < cutoff_time
  THEN CleanTokens(Tail(q), cutoff_time)
  ELSE q

\* sum(tokens for _, tokens in self.token_usage)
RECURSIVE SumTokens(_)
SumTokens(q) == IF q = <<>> THEN 0 ELSE Head(q)[2] + SumTokens(Tail(q))

\* _get_current_usage(current_time) on the logs rq, tq: the trimmed logs it
\* leaves and the pair it returns
GetCurrentUsage(rq, tq, t0) ==
  LET r == CleanRequests(rq, t0 - window_seconds)
      k == CleanTokens(tq, t0 - window_seconds)
  IN [requests |-> r, tokens |-> k, current_rpm |-> Len(r), current_tpm |-> SumTokens(k)]

\* for timestamp, tokens in self.token_usage: tokens_freed += tokens;
\*   if tokens_freed >= needed: <use timestamp>; break
\* The timestamp of the entry the walk stops at, NoTime when the loop runs out.
RECURSIVE WalkFrom(_, _, _)
WalkFrom(q, tokens_freed, needed) ==
  IF q = <<>> THEN NoTime
  ELSE IF tokens_freed + Head(q)[2] >= needed THEN Head(q)[1]
  ELSE WalkFrom(Tail(q), tokens_freed + Head(q)[2], needed)

\* fault: the wait is taken from the oldest entry, whatever it frees
WalkTimestampOldest(q, needed) == IF q = <<>> THEN NoTime ELSE Head(q)[1]

WalkTimestamp(q, needed) == WalkFrom(q, 0, needed)

(* ------------------------------- Init ---------------------------------- *)
Init ==
  /\ now = 0
  /\ rpm_limit \in RpmLimits
  /\ tpm_limit \in TpmLimits
  /\ window_seconds \in Windows
  /\ request_times = <<>>
  /\ token_usage = <<>>
  /\ locked = FALSE
  /\ pc = [t \in Threads |-> "idle"]
  /\ current_time = [t \in Threads |-> NoTime]
  /\ wait_time = [t \in Threads |-> 0]
  /\ stats = [t \in Threads |-> NoStats]
  /\ estimated_tokens = [t \in Threads |-> 0]
  /\ recorded = NoTime

(* ------------------------------ the clock ------------------------------ *)
Tick ==
  /\ now < MaxTime
  /\ now' = now + 1
  /\ UNCHANGED <<config, request_times, token_usage, locked, pc, locals, recorded>>

(* ------------------------------ the lock ------------------------------- *)
\* fault: the call does not wait for the lock
LockFreeAlways == TRUE

\* fault: a sleeping holder does not keep the others out (sleep outside the lock)
LockFreeOrSleeping == locked = FALSE \/ \E u \in Threads : pc[u] \in {"acq_sleep", "rep_sleep"}

\* threading.Lock: `with self.lock` blocks until the lock is free
LockFree == locked = FALSE

(* ------------------------------ acquire -------------------------------- *)
\* calls of acquire() that have not appended their timestamp yet
PendingRequests == Cardinality({u \in Threads : pc[u] \in {"acq_lock", "acq_check", "acq_sleep", "acq_record"}})

\* a thread calls acquire() and reaches `with self.lock`; without an RPM limit
\* nothing bounds the request log, so the calls stop at MaxLog entries
AcquireCall(t) ==
  /\ pc[t] = "idle"
  /\ rpm_limit # None \/ Len(request_times) + PendingRequests < MaxLog
  /\ pc' = [pc EXCEPT ![t] = "acq_lock"]
  /\ UNCHANGED <<now, config, request_times, token_usage, locked, locals, recorded>>

AcquireEnter(t) ==
  /\ pc[t] = "acq_lock"
  /\ LockFree
  /\ locked' = TRUE
  /\ pc' = [pc EXCEPT ![t] = "acq_check"]
  /\ UNCHANGED <<now, config, request_times, token_usage, locals, recorded>>

\* fault: the limit is compared without testing that it is set
AcquireWaitUnchecked(q, t0) ==
  IF q # <<>> /\ Len(q) >= rpm_limit
  THEN Head(q) + window_seconds - t0 + Buffer
  ELSE 0

\* fault: acquire() also waits for the token log, as _calculate_wait_time does
AcquireWaitWithTokens(q, t0) ==
  Max(IF rpm_limit # None /\ Len(q) >= rpm_limit
      THEN Head(q) + window_seconds - t0 + Buffer
      ELSE 0,
      IF tpm_limit # None /\ token_usage # <<>> /\ SumTokens(token_usage) >= tpm_limit
      THEN Max(0, Head(token_usage)[1] + window_seconds - t0 + Buffer)
      ELSE 0)

\* fault: the log is full only above the limit (> for >=)
AcquireWaitStrict(q, t0) ==
  IF rpm_limit # None /\ Len(q) > rpm_limit
  THEN Head(q) + window_seconds - t0 + Buffer
  ELSE 0

\* fault: the 0.1 s is left out
AcquireWaitNoBuffer(q, t0) ==
  IF rpm_limit # None /\ Len(q) >= rpm_limit
  THEN Head(q) + window_seconds - t0
  ELSE 0

\* the wait acquire() computes from the trimmed request log
AcquireWait(q, t0) ==
  IF rpm_limit # None /\ Len(q) >= rpm_limit
  THEN Head(q) + window_seconds - t0 + Buffer
  ELSE 0

AcquireCheck(t) ==
  /\ pc[t] = "acq_check"
  /\ LET q == CleanRequests(request_times, now - window_seconds)
         w == AcquireWait(q, now)
     IN /\ request_times' = q
        /\ token_usage' = CleanTokens(token_usage, now - window_seconds)
        /\ current_time' = [current_time EXCEPT ![t] = now]
        /\ wait_time' = [wait_time EXCEPT ![t] = w]
        /\ pc' = [pc EXCEPT ![t] = IF w > 0 THEN "acq_sleep" ELSE "acq_record"]
  /\ UNCHANGED <<now, config, locked, stats, recorded, estimated_tokens>>

\* time.sleep(wait_time) returns
AcquireWake(t) ==
  /\ pc[t] = "acq_sleep"
  /\ now >= current_time[t] + wait_time[t]
  /\ pc' = [pc EXCEPT ![t] = "acq_record"]
  /\ UNCHANGED <<now, config, request_times, token_usage, locked, locals, recorded>>

\* fault: appendleft for append
RecordRequestFront(q, t0) == <<t0>> \o q

RecordRequest(q, t0) == Append(q, t0)

AcquireRecord(t) ==
  /\ pc[t] = "acq_record"
  /\ current_time' = [current_time EXCEPT ![t] = now]
  /\ request_times' = RecordRequest(request_times, now)
  /\ pc' = [pc EXCEPT ![t] = "acq_unlock"]
  /\ UNCHANGED <<now, config, token_usage, locked, wait_time, stats, recorded, estimated_tokens>>

\* fault: acquire() returns without releasing the lock
AcquireExitKeepsLock(t) ==
  /\ pc[t] = "acq_unlock"
  /\ recorded' = current_time[t]
  /\ current_time' = [current_time EXCEPT ![t] = NoTime]
  /\ wait_time' = [wait_time EXCEPT ![t] = 0]
  /\ pc' = [pc EXCEPT ![t] = "idle"]
  /\ UNCHANGED <<now, config, request_times, token_usage, locked, stats, estimated_tokens>>

\* leaving the with block releases the lock; acquire() returns
AcquireExit(t) ==
  /\ pc[t] = "acq_unlock"
  /\ locked' = FALSE
  /\ recorded' = current_time[t]
  /\ current_time' = [current_time EXCEPT ![t] = NoTime]
  /\ wait_time' = [wait_time EXCEPT ![t] = 0]
  /\ pc' = [pc EXCEPT ![t] = "idle"]
  /\ UNCHANGED <<now, config, request_times, token_usage, stats, estimated_tokens>>

(* ------------------------- report_actual_usage ------------------------- *)
\* calls of report_actual_usage() that have not appended their entry yet
PendingUsage == Cardinality({u \in Threads : pc[u] \in {"rep_lock", "rep_check"}})

\* a thread calls report_actual_usage(); a report of 0 tokens is never delayed,
\* so nothing bounds the token log and the calls stop at MaxLog entries
ReportCall(t) ==
  /\ pc[t] = "idle"
  /\ Len(token_usage) + PendingUsage < MaxLog
  /\ pc' = [pc EXCEPT ![t] = "rep_lock"]
  /\ UNCHANGED <<now, config, request_times, token_usage, locked, locals, recorded>>

ReportEnter(t) ==
  /\ pc[t] = "rep_lock"
  /\ LockFree
  /\ locked' = TRUE
  /\ pc' = [pc EXCEPT ![t] = "rep_check"]
  /\ UNCHANGED <<now, config, request_times, token_usage, locals, recorded>>

\* fault: the 0.1 s is left out
ReportWaitNoBuffer(q, t0) ==
  IF tpm_limit # None /\ SumTokens(q) > tpm_limit
  THEN LET timestamp == WalkTimestamp(q, SumTokens(q) - tpm_limit)
       IN IF timestamp = NoTime THEN 0
          ELSE Max(0, timestamp + window_seconds - t0)
  ELSE 0

\* the wait report_actual_usage() computes from the token log it has appended to;
\* 0 when it does not reach time.sleep
ReportWait(q, t0) ==
  IF tpm_limit # None /\ SumTokens(q) > tpm_limit
  THEN LET timestamp == WalkTimestamp(q, SumTokens(q) - tpm_limit)
       IN IF timestamp = NoTime THEN 0
          ELSE Max(0, timestamp + window_seconds - t0 + Buffer)
  ELSE 0

\* lines 141-159 with the call's argument actual_tokens, which the code first
\* uses here
ReportCheck(t, actual_tokens) ==
  /\ pc[t] = "rep_check"
  /\ LET q == Append(CleanTokens(token_usage, now - window_seconds),
                     <<now, actual_tokens>>)
         w == ReportWait(q, now)
     IN /\ token_usage' = q
        /\ request_times' = CleanRequests(request_times, now - window_seconds)
        /\ current_time' = [current_time EXCEPT ![t] = now]
        /\ wait_time' = [wait_time EXCEPT ![t] = w]
        /\ pc' = [pc EXCEPT ![t] = IF w > 0 THEN "rep_sleep" ELSE "rep_unlock"]
  /\ UNCHANGED <<now, config, locked, stats, recorded, estimated_tokens>>

ReportWake(t) ==
  /\ pc[t] = "rep_sleep"
  /\ now >= current_time[t] + wait_time[t]
  /\ pc' = [pc EXCEPT ![t] = "rep_unlock"]
  /\ UNCHANGED <<now, config, request_times, token_usage, locked, locals, recorded>>

ReportExit(t) ==
  /\ pc[t] = "rep_unlock"
  /\ locked' = FALSE
  /\ current_time' = [current_time EXCEPT ![t] = NoTime]
  /\ wait_time' = [wait_time EXCEPT ![t] = 0]
  /\ pc' = [pc EXCEPT ![t] = "idle"]
  /\ UNCHANGED <<now, config, request_times, token_usage, stats, recorded, estimated_tokens>>

(* --------------------------- get_current_stats ------------------------- *)
StatsCall(t) ==
  /\ pc[t] = "idle"
  /\ pc' = [pc EXCEPT ![t] = "st_lock"]
  /\ UNCHANGED <<now, config, request_times, token_usage, locked, locals, recorded>>

StatsEnter(t) ==
  /\ pc[t] = "st_lock"
  /\ LockFree
  /\ locked' = TRUE
  /\ pc' = [pc EXCEPT ![t] = "st_check"]
  /\ UNCHANGED <<now, config, request_times, token_usage, locals, recorded>>

\* the dict get_current_stats() builds; utilization in whole percent
StatsOf(current_rpm, current_tpm) ==
  [current_rpm |-> current_rpm,
   current_tpm |-> current_tpm,
   rpm_utilization |-> IF rpm_limit # None THEN (current_rpm * 100) \div rpm_limit ELSE 0,
   tpm_utilization |-> IF tpm_limit # None THEN (current_tpm * 100) \div tpm_limit ELSE 0]

StatsCheck(t) ==
  /\ pc[t] = "st_check"
  /\ LET rq == CleanRequests(request_times, now - window_seconds)
         tq == CleanTokens(token_usage, now - window_seconds)
     IN /\ request_times' = rq
        /\ token_usage' = tq
        /\ current_time' = [current_time EXCEPT ![t] = now]
        /\ stats' = [stats EXCEPT ![t] = StatsOf(Len(rq), SumTokens(tq))]
        /\ pc' = [pc EXCEPT ![t] = "st_unlock"]
  /\ UNCHANGED <<now, config, locked, wait_time, recorded, estimated_tokens>>

StatsExit(t) ==
  /\ pc[t] = "st_unlock"
  /\ locked' = FALSE
  /\ stats' = [stats EXCEPT ![t] = NoStats]
  /\ current_time' = [current_time EXCEPT ![t] = NoTime]
  /\ pc' = [pc EXCEPT ![t] = "idle"]
  /\ UNCHANGED <<now, config, request_times, token_usage, wait_time, recorded, estimated_tokens>>

(* ------------------------- _calculate_wait_time ------------------------ *)
\* lines 77-103 on the logs rq, tq that _get_current_usage has trimmed at t0
CalcWait(rq, tq, t0, est) ==
  LET current_rpm == Len(rq)
      current_tpm == SumTokens(tq)
      wait_rpm == IF rpm_limit # None /\ current_rpm >= rpm_limit
                  THEN Max(0, Head(rq) + window_seconds - t0)
                  ELSE 0
      tokens_needed == (current_tpm + est) - tpm_limit
      timestamp == WalkTimestamp(tq, tokens_needed)
      wait_tpm == IF tpm_limit # None /\ current_tpm + est > tpm_limit /\ timestamp # NoTime
                  THEN Max(wait_rpm, timestamp + window_seconds - t0)
                  ELSE wait_rpm
  IN IF wait_tpm > 0 THEN wait_tpm + Buffer ELSE wait_tpm

\* _calculate_wait_time(est) takes no lock and no method of the class calls it;
\* it is called here while no public call is in progress.  It reads the clock
\* once (line 74), so the call is one step.
CalculateWaitTime(t, est) ==
  /\ \A u \in Threads : pc[u] = "idle"
  /\ LET usage == GetCurrentUsage(request_times, token_usage, now)
     IN /\ request_times' = usage.requests
        /\ token_usage' = usage.tokens
        /\ wait_time' = [wait_time EXCEPT ![t] = CalcWait(usage.requests, usage.tokens, now, est)]
  /\ current_time' = [current_time EXCEPT ![t] = now]
  /\ estimated_tokens' = [estimated_tokens EXCEPT ![t] = est]
  /\ pc' = [pc EXCEPT ![t] = "calc_done"]
  /\ UNCHANGED <<now, config, locked, stats, recorded>>

\* the value is returned
CalculateReturn(t) ==
  /\ pc[t] = "calc_done"
  /\ current_time' = [current_time EXCEPT ![t] = NoTime]
  /\ wait_time' = [wait_time EXCEPT ![t] = 0]
  /\ estimated_tokens' = [estimated_tokens EXCEPT ![t] = 0]
  /\ pc' = [pc EXCEPT ![t] = "idle"]
  /\ UNCHANGED <<now, config, request_times, token_usage, locked, stats, recorded>>

(* ------------------------------ the system ----------------------------- *)
Next ==
  \/ Tick
  \/ \E t \in Threads : AcquireCall(t)
  \/ \E t \in Threads : AcquireEnter(t)
  \/ \E t \in Threads : AcquireCheck(t)
  \/ \E t \in Threads : AcquireWake(t)
  \/ \E t \in Threads : AcquireRecord(t)
  \/ \E t \in Threads : AcquireExit(t)
  \/ \E t \in Threads : ReportCall(t)
  \/ \E t \in Threads : ReportEnter(t)
  \/ \E t \in Threads : \E n \in Tokens : ReportCheck(t, n)
  \/ \E t \in Threads : ReportWake(t)
  \/ \E t \in Threads : ReportExit(t)
  \/ \E t \in Threads : StatsCall(t)
  \/ \E t \in Threads : StatsEnter(t)
  \/ \E t \in Threads : StatsCheck(t)
  \/ \E t \in Threads : StatsExit(t)

Spec == Init /\ [][Next]_vars

\* the system with calls of the helper _calculate_wait_time; the helper returns
\* at once, so no other step is taken between its call and its return
CalcNext ==
  \/ (\A u \in Threads : pc[u] # "calc_done") /\ Next
  \/ \E t \in Threads : \E est \in Tokens : CalculateWaitTime(t, est)
  \/ \E t \in Threads : CalculateReturn(t)

CalcSpec == Init /\ [][CalcNext]_vars

(* ----------------- unbounded time, for the liveness check -------------- *)
\* The code uses timestamps only in differences and comparisons, so the origin
\* of time.time() is arbitrary.  When the clock reaches MaxTime the origin is
\* moved forward by one tick; a timestamp already at 0 stays there, which
\* keeps it expired because MaxTime exceeds window_seconds + Buffer.
Shift(x) == IF x = NoTime THEN NoTime ELSE Max(0, x - 1)

Rebase ==
  /\ now = MaxTime
  /\ now' = now - 1
  /\ request_times' = [i \in DOMAIN request_times |-> Shift(request_times[i])]
  /\ token_usage' = [i \in DOMAIN token_usage |-> <<Shift(token_usage[i][1]), token_usage[i][2]>>]
  /\ current_time' = [t \in Threads |-> Shift(current_time[t])]
  /\ recorded' = Shift(recorded)
  /\ UNCHANGED <<config, locked, pc, wait_time, stats, estimated_tokens>>

\* the steps of a call that do not wait for the lock
Body(t) ==
  \/ AcquireCheck(t) \/ AcquireWake(t) \/ AcquireRecord(t) \/ AcquireExit(t)
  \/ (\E n \in Tokens : ReportCheck(t, n)) \/ ReportWake(t) \/ ReportExit(t)
  \/ StatsCheck(t) \/ StatsExit(t)

\* taking the lock
Enter(t) == AcquireEnter(t) \/ ReportEnter(t) \/ StatsEnter(t)

LiveNext == Next \/ Rebase

\* both limits set, so that both kinds of wait occur
LiveInit == Init /\ rpm_limit = 1 /\ tpm_limit = 1

\* an advancing clock; a scheduler that runs the thread holding the lock (only
\* that thread has a Body step); a lock that passes over no waiting thread forever
LiveSpec ==
  /\ LiveInit /\ [][LiveNext]_vars
  /\ WF_vars(Tick \/ Rebase)
  /\ WF_vars(\E t \in Threads : Body(t))
  /\ \A t \in Threads : SF_vars(Enter(t))

(* ======================= properties of the limiter ===================== *)
TypeOK ==
  /\ now \in 0..MaxTime
  /\ locked \in BOOLEAN
  /\ \A t \in Threads : wait_time[t] >= 0

\* a thread between taking and releasing the lock
CriticalPcs == {"acq_check", "acq_sleep", "acq_record", "acq_unlock",
                "rep_check", "rep_sleep", "rep_unlock", "st_check", "st_unlock"}
LockWaitPcs == {"acq_lock", "rep_lock", "st_lock"}
SleepPcs == {"acq_sleep", "rep_sleep"}

InWindowRequests(t0) ==
  Cardinality({i \in DOMAIN request_times : request_times[i] >= t0 - window_seconds})

InWindowTokens(t0) ==
  SumTokens(SelectSeq(token_usage, LAMBDA e : e[1] >= t0 - window_seconds))

\* C1: with an RPM limit set, at every instant the request log holds at most
\* rpm_limit timestamps inside the trailing window (timestamp >= now - window).
C1_RequestsInWindow ==
  rpm_limit # None => InWindowRequests(now) <= rpm_limit

\* an acquire() that found the log full has slept and recorded: the log holds
\* rpm_limit + 1 timestamps, rpm_limit of them in the window
C1_Witness ==
  /\ rpm_limit = 2
  /\ Len(request_times) = 3
  /\ InWindowRequests(now) = 2
  /\ \E t \in Threads : pc[t] = "acq_unlock" /\ wait_time[t] > 0

\* C2 as stated: with a TPM limit set, the tokens inside the trailing window
\* never sum to more than tpm_limit, also while a report_actual_usage() call
\* that has appended its entry is sleeping.
C2_TokensInWindowAlways ==
  tpm_limit # None => InWindowTokens(now) <= tpm_limit

\* C2 amended: with a TPM limit set, the tokens inside the trailing window sum
\* to at most tpm_limit in every state in which no report_actual_usage() call
\* is sleeping on the entry it has appended.
C2_TokensInWindowUnlessSleeping ==
  (tpm_limit # None /\ \A t \in Threads : pc[t] # "rep_sleep")
    => InWindowTokens(now) <= tpm_limit

\* a report has slept off an overshoot and is about to return, with tokens
\* still in the window
C2_Witness ==
  /\ tpm_limit # None
  /\ \E t \in Threads : pc[t] = "rep_unlock" /\ wait_time[t] > 0
  /\ SumTokens(token_usage) > tpm_limit
  /\ InWindowTokens(now) > 0

\* the sum of the first k token counts of q
PrefixSum(q, k) == SumTokens(SubSeq(q, 1, k))

\* the length of the shortest prefix of q whose counts sum to at least needed
ShortestPrefix(q, needed) ==
  CHOOSE k \in 1..Len(q) :
    /\ PrefixSum(q, k) >= needed
    /\ \A j \in 1..(k - 1) : PrefixSum(q, j) < needed

\* C3: when report_actual_usage() is about to return after appending an entry
\* that took the token sum over tpm_limit, every entry of the shortest prefix
\* of oldest entries that sums to the overshoot has left the window, and the
\* tokens still inside the window sum to at most tpm_limit.
C3_ReportReturnsUnderLimit ==
  \A t \in Threads :
    (pc[t] = "rep_unlock" /\ tpm_limit # None) =>
      /\ InWindowTokens(now) <= tpm_limit
      /\ SumTokens(token_usage) > tpm_limit =>
           \A i \in 1..ShortestPrefix(token_usage, SumTokens(token_usage) - tpm_limit) :
             token_usage[i][1] < now - window_seconds

\* a single report above the limit has been slept off
C3_Witness ==
  \E t \in Threads :
    /\ pc[t] = "rep_unlock"
    /\ tpm_limit # None
    /\ Len(token_usage) = 1
    /\ token_usage[1][2] > tpm_limit

\* C4: an acquire() that finds rpm_limit timestamps in the window sleeps
\* exactly oldest + window - current_time + Buffer and records a timestamp that
\* is no earlier than oldest + window; an acquire() that finds fewer records
\* without sleeping.
C4_AcquireWait ==
  \A t \in Threads :
    /\ pc[t] = "acq_sleep" =>
         /\ rpm_limit # None /\ Len(request_times) >= rpm_limit
         /\ wait_time[t] = Head(request_times) + window_seconds - current_time[t] + Buffer
    /\ (pc[t] = "acq_record" /\ wait_time[t] = 0) =>
         (rpm_limit = None \/ Len(request_times) < rpm_limit)
    /\ (pc[t] = "acq_unlock" /\ wait_time[t] > 0) =>
         /\ request_times[Len(request_times)] = current_time[t]
         /\ current_time[t] >= Head(request_times) + window_seconds

\* rpm_limit = 2: two calls recorded at the same instant, the third called at
\* that instant has slept window + Buffer and recorded
C4_Witness ==
  \E t \in Threads :
    /\ pc[t] = "acq_unlock"
    /\ rpm_limit = 2
    /\ wait_time[t] = window_seconds + Buffer
    /\ Len(request_times) = 3
    /\ request_times[1] = request_times[2]

\* C5: at most one thread is between taking and releasing the lock.
C5_MutualExclusion ==
  Cardinality({t \in Threads : pc[t] \in CriticalPcs}) <= 1

\* one thread sleeps in acquire() with the lock, another waits for the lock
C5_Witness ==
  \E t, u \in Threads : pc[t] = "acq_sleep" /\ pc[u] = "rep_lock"

Range(q) == {q[i] : i \in DOMAIN q}

\* C6: when an acquire() has computed its admission decision, the timestamp
\* recorded by the acquire() that returned last is in the request log the
\* decision counted, or had expired at the instant of the decision.
C6_ReturnedIsCounted ==
  \A t \in Threads :
    (pc[t] \in {"acq_sleep", "acq_record"} /\ recorded # NoTime) =>
      \/ recorded \in Range(request_times)
      \/ recorded < current_time[t] - window_seconds

\* a decision taken when the returned timestamp sits exactly at the cutoff
C6_Witness ==
  \E t \in Threads :
    /\ pc[t] \in {"acq_sleep", "acq_record"}
    /\ recorded # NoTime
    /\ recorded = current_time[t] - window_seconds
    /\ recorded \in Range(request_times)

\* a call that has started a sleep and has not returned yet
Waiting(t) ==
  \/ pc[t] \in SleepPcs
  \/ pc[t] \in {"acq_record", "acq_unlock", "rep_unlock"} /\ wait_time[t] > 0

NoOtherEnters(t) == \A u \in Threads \ {t} : pc'[u] \notin CriticalPcs

\* C7 as stated: from the start of a sleep in acquire() or
\* report_actual_usage() until the call returns, no other thread enters its
\* critical section and neither log changes.
C7_LogsFrozenUntilReturn ==
  [][\A t \in Threads :
       Waiting(t) => /\ NoOtherEnters(t)
                     /\ request_times' = request_times
                     /\ token_usage' = token_usage]_vars

\* C7 amended: from the start of a sleep until the call returns, no other
\* thread enters its critical section and the token log does not change; the
\* request log does not change during the sleep, and afterwards only by the
\* acquire() that slept appending its own timestamp.
C7_LockHeldThroughWait ==
  [][\A t \in Threads :
       Waiting(t) => /\ NoOtherEnters(t)
                     /\ token_usage' = token_usage
                     /\ \/ request_times' = request_times
                        \/ /\ pc[t] = "acq_record"
                           /\ pc'[t] = "acq_unlock"
                           /\ request_times' = Append(request_times, now)]_vars

\* a report sleeps with the lock while the other thread waits to acquire
C7_Witness ==
  \E t, u \in Threads : pc[t] = "rep_sleep" /\ pc[u] = "acq_lock"

TrimStep(t) == pc[t] \in {"acq_check", "rep_check", "st_check"} /\ pc'[t] # pc[t]

\* C9 as stated: right after a trim at the instant `now`, every timestamp left
\* in either log is strictly greater than now - window_seconds.
C9_StrictlyInsideAfterTrim ==
  [][\A t \in Threads :
       TrimStep(t) =>
         /\ \A i \in DOMAIN request_times' : request_times'[i] > now - window_seconds
         /\ \A i \in DOMAIN token_usage' : token_usage'[i][1] > now - window_seconds]_vars

\* C9 amended: right after a trim at the instant `now`, every timestamp left in
\* either log is greater than or equal to now - window_seconds.
C9_InsideAfterTrim ==
  [][\A t \in Threads :
       TrimStep(t) =>
         /\ \A i \in DOMAIN request_times' : request_times'[i] >= now - window_seconds
         /\ \A i \in DOMAIN token_usage' : token_usage'[i][1] >= now - window_seconds]_vars

\* a trim has kept a request timestamp that equals the cutoff
C9_Witness ==
  \E t \in Threads :
    /\ pc[t] = "st_unlock"
    /\ \E i \in DOMAIN request_times : request_times[i] = current_time[t] - window_seconds

\* C10: a trim at the instant `now` removes exactly the entries whose timestamp
\* is less than now - window_seconds, and get_current_stats() counts exactly
\* the entries whose timestamp is at least now - window_seconds.
C10_ExpiryPredicate ==
  [][\A t \in Threads :
       TrimStep(t) =>
         LET rq == SelectSeq(request_times, LAMBDA x : x >= now - window_seconds)
             tq == SelectSeq(token_usage, LAMBDA e : e[1] >= now - window_seconds)
         IN /\ request_times' = rq
            /\ pc[t] # "rep_check" => token_usage' = tq
            /\ pc[t] = "rep_check" => SubSeq(token_usage', 1, Len(token_usage') - 1) = tq
            /\ pc[t] = "st_check" =>
                 /\ stats'[t].current_rpm = Len(rq)
                 /\ stats'[t].current_tpm = SumTokens(tq)]_vars

\* the stats count a token entry that equals the cutoff
C10_Witness ==
  \E t \in Threads :
    /\ pc[t] = "st_unlock"
    /\ stats[t].current_tpm > 0
    /\ \A i \in DOMAIN token_usage :
         token_usage[i][2] > 0 => token_usage[i][1] = current_time[t] - window_seconds

(* ------------------------------ log order ------------------------------ *)
\* s is q without some entries at its head
IsSuffix(s, q) == \E k \in 0..Len(q) : s = SubSeq(q, k + 1, Len(q))

\* q2 is q with entries removed at the head and at most one added at the tail
HeadTailOnly(q, q2) ==
  \/ IsSuffix(q2, q)
  \/ q2 # <<>> /\ IsSuffix(SubSeq(q2, 1, Len(q2) - 1), q)

SortedRequests(q) == \A i \in 1..(Len(q) - 1) : q[i] <= q[i + 1]
SortedUsage(q) == \A i \in 1..(Len(q) - 1) : q[i][1] <= q[i + 1][1]

\* C11: after every step the timestamps of the request log and of the token
\* log are non-decreasing from head to tail, and the step has only removed
\* entries at the head and added at most one at the tail.
C11_ChronologicalOrder ==
  [][/\ SortedRequests(request_times')
     /\ SortedUsage(token_usage')
     /\ HeadTailOnly(request_times, request_times')
     /\ HeadTailOnly(token_usage, token_usage')]_vars

\* both logs hold entries of different instants, the last one just recorded
C11_Witness ==
  /\ \E t \in Threads : pc[t] = "acq_unlock"
  /\ Len(request_times) >= 2 /\ request_times[1] < request_times[Len(request_times)]
  /\ Len(token_usage) >= 2 /\ token_usage[1][1] < token_usage[Len(token_usage)][1]

(* ----------------------------- unset limits ---------------------------- *)
\* C12: without an RPM limit no acquire() sleeps, without a TPM limit no
\* report_actual_usage() sleeps, and get_current_stats() reports a utilization
\* of 0 for each limit that is not set.
C12_UnsetLimitPassthrough ==
  \A t \in Threads :
    /\ rpm_limit = None => pc[t] # "acq_sleep"
    /\ tpm_limit = None => pc[t] # "rep_sleep"
    /\ pc[t] = "st_unlock" =>
         /\ rpm_limit = None => stats[t].rpm_utilization = 0
         /\ tpm_limit = None => stats[t].tpm_utilization = 0

\* no limit is set, both logs hold entries in the window and the stats are read
C12_Witness ==
  \E t \in Threads :
    /\ rpm_limit = None /\ tpm_limit = None
    /\ pc[t] = "st_unlock"
    /\ stats[t].current_rpm >= 2
    /\ stats[t].current_tpm >= 2

(* ------------------------ acquire and the tokens ----------------------- *)
\* a step of acquire() by thread t
AcquireStep(t) ==
  pc[t] \in {"acq_lock", "acq_check", "acq_sleep", "acq_record", "acq_unlock"} /\ pc'[t] # pc[t]

\* the wait that the request log, rpm_limit, window_seconds and the clock
\* determine, with no reference to the token log or tpm_limit
RequestOnlyWait ==
  LET inside == SelectSeq(request_times, LAMBDA x : x >= now - window_seconds)
  IN IF rpm_limit # None /\ Len(inside) >= rpm_limit
     THEN inside[1] + window_seconds - now + Buffer
     ELSE 0

\* C13: no step of acquire() adds an entry to the token log, and the wait
\* acquire() decides on is the one determined by the request log, rpm_limit,
\* window_seconds and the clock alone.
C13_AcquireIgnoresTokens ==
  [][\A t \in Threads :
       AcquireStep(t) =>
         /\ IsSuffix(token_usage', token_usage)
         /\ pc[t] = "acq_check" =>
              /\ wait_time'[t] = RequestOnlyWait
              /\ pc'[t] = IF RequestOnlyWait > 0 THEN "acq_sleep" ELSE "acq_record"]_vars

\* the token budget of the window is used up and acquire() goes on without a sleep
C13_Witness ==
  \E t \in Threads :
    /\ pc[t] = "acq_record"
    /\ wait_time[t] = 0
    /\ current_time[t] = now
    /\ tpm_limit # None
    /\ InWindowTokens(now) >= tpm_limit

(* ----------------------------- stats twice ------------------------------ *)
\* C14: a second get_current_stats() at an instant t2 after a first one, with
\* no entry added in between, returns counts that are at most those of the
\* first; at the same instant it returns the same counts and leaves both logs
\* as the first left them.
C14_StatsIdempotent ==
  [][\A t \in Threads :
       (pc[t] = "st_check" /\ pc'[t] = "st_unlock") =>
         \A t2 \in now..MaxTime :
           LET second == GetCurrentUsage(request_times', token_usage', t2)
           IN /\ second.current_rpm <= stats'[t].current_rpm
              /\ second.current_tpm <= stats'[t].current_tpm
              /\ t2 = now =>
                   /\ second.current_rpm = stats'[t].current_rpm
                   /\ second.current_tpm = stats'[t].current_tpm
                   /\ second.requests = request_times'
                   /\ second.tokens = token_usage']_vars

\* the stats count entries that a later call will no longer count
C14_Witness ==
  \E t \in Threads :
    /\ pc[t] = "st_unlock"
    /\ stats[t].current_rpm > 0
    /\ stats[t].current_tpm > 0
    /\ current_time[t] < MaxTime - window_seconds

(* -------------------------- size of the request log -------------------- *)
\* C19: with an RPM limit the request log never holds more than rpm_limit + 1
\* timestamps and holds at most rpm_limit right after a trim; it reaches
\* rpm_limit + 1 only by the append of an acquire() that slept, and while it
\* has that length its head has expired and its tail was recorded at least
\* window_seconds + Buffer after the head.
C19_RequestLogBound ==
  [][rpm_limit # None =>
       LET n == Len(request_times')
       IN /\ n <= rpm_limit + 1
          /\ n = rpm_limit + 1 =>
               /\ request_times'[1] < now' - window_seconds
               /\ request_times'[n] >= request_times'[1] + window_seconds + Buffer
          /\ (n = rpm_limit + 1 /\ Len(request_times) # rpm_limit + 1) =>
               \E t \in Threads :
                 pc[t] = "acq_record" /\ wait_time[t] > 0 /\ pc'[t] = "acq_unlock"
          /\ \A t \in Threads : TrimStep(t) => n <= rpm_limit]_vars

\* the acquire() that slept has returned and the log still holds its expired head
C19_Witness ==
  /\ rpm_limit = 1
  /\ Len(request_times) = 2
  /\ \A t \in Threads : pc[t] = "idle"

(* --------------------------- length of a sleep -------------------------- *)
\* C20: every sleep of acquire() and of report_actual_usage() is asked for a
\* duration between Buffer and window_seconds + Buffer; acquire() sleeps
\* whenever the trimmed request log holds rpm_limit entries or more, and
\* report_actual_usage() sleeps whenever the token sum is above tpm_limit.
C20_SleepBounds ==
  [][\A t \in Threads :
       /\ (pc'[t] \in SleepPcs /\ pc[t] # pc'[t]) =>
            (Buffer <= wait_time'[t] /\ wait_time'[t] <= window_seconds + Buffer)
       /\ (pc[t] = "acq_check" /\ pc'[t] # pc[t]
             /\ rpm_limit # None /\ Len(request_times') >= rpm_limit) =>
            pc'[t] = "acq_sleep"
       /\ (pc[t] = "rep_check" /\ pc'[t] # pc[t]
             /\ tpm_limit # None /\ SumTokens(token_usage') > tpm_limit) =>
            pc'[t] = "rep_sleep"]_vars

\* the shortest sleep: the oldest request is exactly at the cutoff
C20_Witness ==
  \E t \in Threads : pc[t] = "acq_sleep" /\ wait_time[t] = Buffer

(* ------------------------- _calculate_wait_time ------------------------ *)
\* the step in which thread t calls _calculate_wait_time
CalcStep(t) == pc[t] = "idle" /\ pc'[t] = "calc_done"

\* some prefix of q frees at least needed tokens
PrefixReaches(q, needed) == \E k \in 1..Len(q) : PrefixSum(q, k) >= needed

\* C15: at both walks of the token log the amount to free is at most the sum
\* of the log and some prefix reaches it: in _calculate_wait_time when
\* current_tpm + estimated_tokens > tpm_limit, in report_actual_usage when
\* current_tpm > tpm_limit.
C15_WalkFindsEntry ==
  \A t \in Threads :
    LET current_tpm == SumTokens(token_usage)
    IN /\ (pc[t] = "calc_done" /\ tpm_limit # None
             /\ current_tpm + estimated_tokens[t] > tpm_limit) =>
            /\ (current_tpm + estimated_tokens[t]) - tpm_limit <= current_tpm
            /\ PrefixReaches(token_usage, (current_tpm + estimated_tokens[t]) - tpm_limit)
       /\ (pc[t] \in {"rep_sleep", "rep_unlock"} /\ tpm_limit # None
             /\ current_tpm > tpm_limit) =>
            /\ current_tpm - tpm_limit <= current_tpm
            /\ PrefixReaches(token_usage, current_tpm - tpm_limit)

\* C16 as stated: a call of _calculate_wait_time leaves the request log and
\* the token log exactly as they were.
C16_CalcLeavesLogs ==
  [][\A t \in Threads :
       CalcStep(t) => (request_times' = request_times /\ token_usage' = token_usage)]_vars

\* C16 amended: a call of _calculate_wait_time at the instant `now` adds no
\* entry and reorders none; it removes exactly the entries whose timestamp is
\* less than now - window_seconds, so it leaves a log without such entries
\* exactly as it was.
C16_CalcOnlyTrims ==
  [][\A t \in Threads :
       CalcStep(t) =>
         /\ request_times' = SelectSeq(request_times, LAMBDA x : x >= now - window_seconds)
         /\ token_usage' = SelectSeq(token_usage, LAMBDA e : e[1] >= now - window_seconds)]_vars

\* the helper has run on logs whose oldest request is exactly at the cutoff
C16_Witness ==
  \E t \in Threads :
    /\ pc[t] = "calc_done"
    /\ request_times # <<>> /\ request_times[1] = current_time[t] - window_seconds
    /\ token_usage # <<>>

\* the largest element of a non-empty set of integers
MaxOf(S) == CHOOSE x \in S : \A y \in S : y <= x

\* C17: the value of _calculate_wait_time is m + Buffer when m > 0 and 0
\* otherwise, m being the largest of 0, the RPM candidate (when rpm_limit is
\* set and reached) and the TPM candidate (when tpm_limit is set and
\* current_tpm + estimated_tokens is above it), which is taken from the first
\* entry at which the running sum reaches the deficit; it is never negative.
C17_CalcResult ==
  \A t \in Threads :
    pc[t] = "calc_done" =>
      LET t0 == current_time[t]
          current_tpm == SumTokens(token_usage)
          deficit == (current_tpm + estimated_tokens[t]) - tpm_limit
          rpm_applies == rpm_limit # None /\ Len(request_times) >= rpm_limit
          tpm_applies == tpm_limit # None /\ current_tpm + estimated_tokens[t] > tpm_limit
          first == {k \in 1..Len(token_usage) :
                      /\ PrefixSum(token_usage, k) >= deficit
                      /\ \A j \in 1..(k - 1) : PrefixSum(token_usage, j) < deficit}
          m == MaxOf({0}
                 \cup (IF rpm_applies THEN {request_times[1] + window_seconds - t0} ELSE {})
                 \cup (IF tpm_applies
                       THEN {token_usage[k][1] + window_seconds - t0 : k \in first}
                       ELSE {}))
      IN /\ tpm_applies => first # {}
         /\ wait_time[t] = IF m > 0 THEN m + Buffer ELSE 0
         /\ wait_time[t] >= 0

\* C18: where only the RPM limit applies (tpm_limit unset or estimated_tokens
\* = 0), _calculate_wait_time returns the duration acquire() sleeps in the
\* same state at the same instant.
C18_AcquireAgreesWithCalc ==
  \A t \in Threads :
    (pc[t] = "calc_done" /\ (tpm_limit = None \/ estimated_tokens[t] = 0)) =>
      wait_time[t] = AcquireWait(request_times, current_time[t])

====
